---- MODULE Spec2Model ----
(***************************************************************************)
(* Group Weaver AI backend (python-backend): the flat JSON store, the      *)
(* merge of device syncs, the bounded activity log, the common-members    *)
(* aggregation and the WebSocket connection manager, as one state machine. *)
(*                                                                         *)
(* Scheduling.  Every endpoint is an `async def` run on one asyncio event  *)
(* loop, and storage_service is plain blocking code.  A coroutine keeps    *)
(* the loop from the moment it is resumed until its next `await`, so one   *)
(* action of this model is one such segment: "resume, run to the next      *)
(* await".  The awaits of the code are websocket.accept, receive_text and  *)
(* send_json; there is none between a load_data and the save_data that     *)
(* follows it.                                                             *)
(*                                                                         *)
(* Not modelled: failures of the file system (open/json.load/json.dump     *)
(* raising), task cancellation, and the Gemini endpoints.                  *)
(***************************************************************************)
EXTENDS Integers, Sequences, FiniteSets, TLC

VARIABLES
    data,                \* storage.json: [lists, logs, last_sync]
    now,                 \* datetime.now(), a logical clock
    active_connections,  \* ConnectionManager.active_connections (a Python list)
    connected_devices,   \* ConnectionManager.connected_devices (device_id -> time)
    ws,                  \* per websocket: the position of its websocket_endpoint task, its transport
    req,                 \* per in-flight HTTP request: the position of its broadcast
    lastOp               \* history: what the last step was, what it sent and returned

vars == <<data, now, active_connections, connected_devices, ws, req, lastOp>>

----------------------------------------------------------------------------
\* Bounds of the model.

\* Ticks of the clock in one behaviour of Spec: the requests stop after it.
MaxClock == 2
\* Ticks of the clock in one behaviour of SpecLog: LogFill appends to the log
\* alone, then any operation up to MaxAppends ticks.
LogFill == 99
MaxAppends == 102
\* Requests that broadcast in one behaviour of SpecHub.
MaxEvents == 2
\* Ticks of the clock in one behaviour of SpecAgg: the lists it can store.
MaxSources == 3

\* logs = logs[:100]
MaxLogs == 100

WebSockets == {"w1", "w2"}
StoreSockets == {"w1"}
\* The requests that can be in flight at once, in the order they are used.
RequestOrder == <<"r1", "r2">>
Requests == {RequestOrder[i] : i \in 1..Len(RequestOrder)}
Devices == {"A", "B"}

NoDevice == "none"
NoTime == 0 - 1

----------------------------------------------------------------------------
\* Sequences.

Range(s) == {s[i] : i \in 1..Len(s)}

Take(s, n) == SubSeq(s, 1, IF Len(s) < n THEN Len(s) ELSE n)

RECURSIVE SumLen(_)
SumLen(ls) ==
    IF ls = <<>> THEN 0 ELSE Len(ls[1].members) + SumLen(Tail(ls))

----------------------------------------------------------------------------
\* models/schemas.py

Contact(id, name, phone) == [id |-> id, name |-> name, phone |-> phone]

BroadcastList(id, name, members, auto) ==
    [id |-> id, name |-> name, members |-> members, created_at |-> 0,
     is_auto_generated |-> auto]

Bob1 == Contact("1", <<"B", "o", "b">>, <<"5", "5", "5", "1", "2", "3", "4", "5", "6", "7">>)
Bob2 == Contact("2", <<"B", "o", "b">>, <<"+", "1", "5", "5", "5", "1", "2", "3", "4", "5", "6", "7">>)
Ann == Contact("3", <<"A", "n", "n">>, <<>>)

TeamV1 == BroadcastList("L1", "Team", <<Bob1>>, FALSE)
TeamV2 == BroadcastList("L1", "Team", <<Bob1, Ann>>, FALSE)
Friends == BroadcastList("L2", "Friends", <<Bob2>>, FALSE)

\* The request bodies the clients send: the lists of POST /api/lists, and the
\* `lists` of POST /api/sync (none, one, two of different ids, two of one id).
RequestLists == {TeamV1, TeamV2, Friends}
SyncBodies == {<<>>, <<TeamV1>>, <<TeamV2>>, <<Friends>>, <<TeamV1, Friends>>, <<TeamV1, TeamV2>>}
ListIds == {"L1", "L2", "L3"}

\* l.dict(): a stored list, before any stamp (the keys synced_from and
\* synced_at are absent: NoDevice, NoTime).  The schema has no field
\* isAutoGenerated, so the key is absent from every list this server writes:
\* FALSE, what .get("isAutoGenerated", False) gives.
Dict(bl) ==
    [id |-> bl.id, name |-> bl.name, members |-> bl.members,
     created_at |-> bl.created_at, is_auto_generated |-> bl.is_auto_generated,
     isAutoGenerated |-> FALSE,
     synced_from |-> NoDevice, synced_at |-> NoTime]

Ids(ls) == {ls[i].id : i \in 1..Len(ls)}

\* The contacts and lists the aggregation is asked about: one person under
\* three writings of one phone number, one under two writings of a name and no
\* phone, a contact with neither phone nor name; a list that holds a member
\* twice; a list flagged by this server's schema, and one flagged under the
\* other spelling by an earlier writer of storage.json.
BobDashed ==
    Contact("4", <<"B", "o", "b">>,
            <<"+", "1", "-", "5", "5", "5", "-", "1", "2", "3", "-", "4", "5", "6", "7">>)
Alice == Contact("5", <<"A", "l", "i", "c", "e">>, <<>>)
AliceSpaced == Contact("6", <<" ", "a", "l", "i", "c", "e", " ">>, <<>>)
Blank == Contact("7", <<" ", " ">>, <<>>)

Work == BroadcastList("L3", "Work", <<BobDashed, Alice, Blank>>, FALSE)
Club == BroadcastList("L4", "Club", <<AliceSpaced, Bob1, Bob1, Blank>>, FALSE)
Generated == BroadcastList("L5", "Common", <<Bob1, Alice>>, TRUE)
Legacy ==
    [Dict(BroadcastList("L6", "Common (old)", <<Bob2, AliceSpaced>>, FALSE))
        EXCEPT !.isAutoGenerated = TRUE]

AggLists == {TeamV1, Friends, Work, Club, Generated}
AggListIds == {"L1", "L2", "L3", "L4", "L5", "L6"}
\* The stored lists a run can start from: none, or what an earlier writer left.
StoredAtStart == {<<>>, <<Legacy>>}

----------------------------------------------------------------------------
\* services/storage_service.py

EmptyData == [lists |-> <<>>, logs |-> <<>>, last_sync |-> NoTime]

\* get_lists with the bug "the document is read once and kept": it gives the
\* lists the step before this one started from.
get_lists_kept == lastOp.pre.lists

get_lists == data.lists

get_logs == data.logs

save_lists(d, ls, t) == [d EXCEPT !.lists = ls, !.last_sync = t]

\* Upsert with the bug "an id already present keeps its list".
UpsertKeepsFirst(d, l) ==
    IF \E i \in 1..Len(d) : d[i].id = l.id THEN d ELSE Append(d, l)

\* existing_lists[l["id"]] = l on an insertion-ordered dict.
Upsert(d, l) ==
    IF \E i \in 1..Len(d) : d[i].id = l.id
    THEN [i \in 1..Len(d) |-> IF d[i].id = l.id THEN l ELSE d[i]]
    ELSE Append(d, l)

\* {l["id"]: l for l in lists}, then list(existing_lists.values())
RECURSIVE UpsertAll(_, _)
UpsertAll(d, ls) ==
    IF ls = <<>> THEN d ELSE UpsertAll(Upsert(d, ls[1]), Tail(ls))

Stamp(l, device_id, t) == [l EXCEPT !.synced_from = device_id, !.synced_at = t]

StampAll(ls, device_id, t) == [i \in 1..Len(ls) |-> Stamp(ls[i], device_id, t)]

sync_from_android(d, device_id, ls, t) ==
    [d EXCEPT !.lists = UpsertAll(UpsertAll(<<>>, d.lists), StampAll(ls, device_id, t)),
              !.last_sync = t]

LogEntry(t, action, subject, count, status) ==
    [timestamp |-> t, action |-> action, subject |-> subject, count |-> count,
     status |-> status]

\* add_log with the bug "nothing is written".
add_log_skipped(d, log) == d

\* add_log with the bug "the slice is missing".
add_log_unbounded(d, log) == [d EXCEPT !.logs = <<log>> \o d.logs]

\* add_log with the bug "append instead of insert(0, ...)".
add_log_at_end(d, log) == [d EXCEPT !.logs = Take(d.logs \o <<log>>, MaxLogs)]

add_log(d, log) == [d EXCEPT !.logs = Take(<<log>> \o d.logs, MaxLogs)]

----------------------------------------------------------------------------
\* main.py: ConnectionManager

\* list.remove: the first occurrence.
RemoveFirst(s, x) ==
    LET i == CHOOSE k \in 1..Len(s) : s[k] = x /\ \A j \in 1..(k - 1) : s[j] # x
    IN  SubSeq(s, 1, i - 1) \o SubSeq(s, i + 1, Len(s))

\* disconnect with the bug "no membership test": a connection that is not in
\* the list costs the list its last entry.
disconnect_unguarded(conns, websocket) ==
    IF websocket \in Range(conns) THEN RemoveFirst(conns, websocket)
    ELSE SubSeq(conns, 1, Len(conns) - 1)

disconnect(conns, websocket) ==
    IF websocket \in Range(conns) THEN RemoveFirst(conns, websocket) ELSE conns

RECURSIVE DisconnectAll(_, _)
DisconnectAll(conns, gone) ==
    IF gone = <<>> THEN conns
    ELSE DisconnectAll(disconnect(conns, gone[1]), Tail(gone))

\* An outbound event: init, pong, data, sync, data_change.
Message(type, action, details, device_id, lists_count, members_count, devices, ls, t) ==
    [type |-> type, action |-> action, details |-> details, device_id |-> device_id,
     lists_count |-> lists_count, members_count |-> members_count,
     connected_devices |-> devices, lists |-> ls, timestamp |-> t]

NoMessage == Message("none", "", "", NoDevice, 0, 0, {}, <<>>, NoTime)

\* A request that is not inside broadcast.
Idle ==
    [pc |-> "idle", msg |-> NoMessage, idx |-> 0, disconnected |-> <<>>,
     stayed |-> {}, attempted |-> {}]

\* broadcast entered: disconnected = [], the iterator at the head of the list.
\* stayed and attempted are history, not read by the code: the connections
\* live since the broadcast started, and those a send was attempted to.
Entered(msg, conns) ==
    [pc |-> "sending", msg |-> msg, idx |-> 0, disconnected |-> <<>>,
     stayed |-> Range(conns), attempted |-> {}]

\* One segment of broadcast.  The list iterator holds an index into the live
\* list: it takes active_connections[idx] if there is one and the coroutine
\* suspends in send_json; a send on a closed transport raises and the
\* connection is noted.  When the index has passed the end the loop is over,
\* the noted connections are disconnected and broadcast returns.
broadcast(b, conns, transport) ==
    IF b.idx < Len(conns)
    THEN LET connection == conns[b.idx + 1]
             ok == transport[connection] = "open"
         IN  [b |-> [b EXCEPT !.idx = @ + 1,
                              !.attempted = @ \cup {connection},
                              !.disconnected = IF ok THEN @ ELSE Append(@, connection)],
              conns |-> conns,
              sent |-> IF ok THEN {[to |-> connection, msg |-> b.msg]} ELSE {},
              done |-> FALSE]
    ELSE [b |-> b,
          conns |-> DisconnectAll(conns, b.disconnected),
          sent |-> {},
          done |-> TRUE]

\* History: the subscribers of each running broadcast that are still live.
Track(rq, conns) ==
    [r \in Requests |-> [rq[r] EXCEPT !.stayed = @ \cap Range(conns)]]

----------------------------------------------------------------------------
\* The state.

Transport == [w \in WebSockets |-> ws[w].transport]

\* DeviceKeys with the bug "every device the server knows of".
DeviceKeysKnown == Devices

\* list(manager.connected_devices.keys())
DeviceKeys == {d \in Devices : connected_devices[d] # NoTime}

\* A key that a response of GET /api/common-members does not have.
NoCount == 0 - 1

\* The response of a step that is not a GET /api/common-members.
NoResult ==
    [success |-> FALSE, common_members |-> <<>>, source_lists_count |-> NoCount,
     total_common |-> NoCount, message |-> ""]

\* lastOp when nothing has happened yet; every step overwrites all of it.
NoOp ==
    [op |-> "none", who |-> "none", device_id |-> NoDevice, lists |-> <<>>,
     list_id |-> "", frame |-> "", pre |-> EmptyData, conns |-> <<>>,
     sent |-> {}, status |-> 0, raised |-> FALSE, result |-> NoResult,
     total |-> NoCount,
     bdone |-> FALSE, bstayed |-> {}, battempted |-> {}, bfailed |-> {}]

\* What a step is: the operation, who ran it, and the state it started from.
Op(op, who) ==
    [NoOp EXCEPT !.op = op, !.who = who, !.pre = data, !.conns = active_connections]

\* The first run: storage.json is absent and ensure_storage_exists seeds it
\* empty; nobody is connected.
Init ==
    /\ data = EmptyData
    /\ now = 0
    /\ active_connections = <<>>
    /\ connected_devices = [d \in Devices |-> NoTime]
    /\ ws = [w \in WebSockets |-> [pc |-> "new", transport |-> "open"]]
    /\ req = [r \in Requests |-> Idle]
    /\ lastOp = NoOp

\* A new request takes the first request that is not in flight.
IsFree(r) ==
    \E i \in 1..Len(RequestOrder) :
        /\ RequestOrder[i] = r
        /\ req[r].pc = "idle"
        /\ \A j \in 1..(i - 1) : req[RequestOrder[j]].pc # "idle"

\* The segment of a request that runs broadcast: b is its broadcast before the
\* segment, op the step's record so far.
RunBroadcast(r, b, op) ==
    LET s == broadcast(b, active_connections, Transport)
    IN  /\ active_connections' = s.conns
        /\ req' = Track([req EXCEPT ![r] = IF s.done THEN Idle ELSE s.b], s.conns)
        /\ lastOp' = [op EXCEPT !.sent = s.sent,
                                !.status = IF s.done THEN 200 ELSE 0,
                                !.bdone = s.done,
                                !.bstayed = s.b.stayed,
                                !.battempted = s.b.attempted,
                                !.bfailed = Range(s.b.disconnected)]

----------------------------------------------------------------------------
\* main.py: the REST endpoints.

\* POST /api/sync, to its first await: the merge, the log entry, notify_sync
\* up to the first send of its broadcast.
post_sync(r, device_id, ls) ==
    /\ IsFree(r)
    /\ LET t == now + 1
           merged == sync_from_android(data, device_id, [i \in 1..Len(ls) |-> Dict(ls[i])], t)
           log == LogEntry(t, "Synced lists from Android", device_id, Len(ls), "success")
           msg == Message("sync", "", "", device_id, Len(ls), SumLen(ls), {}, <<>>, t)
       IN  /\ now' = t
           /\ data' = add_log(merged, log)
           /\ connected_devices' = [connected_devices EXCEPT ![device_id] = t]
           /\ RunBroadcast(r, Entered(msg, active_connections),
                           [Op("sync", r) EXCEPT !.device_id = device_id,
                                                 !.lists = [i \in 1..Len(ls) |-> Dict(ls[i])],
                                                 !.total = Len(merged.lists)])
    /\ UNCHANGED ws

\* POST /api/lists, to its first await.
create_list(r, broadcast_list) ==
    /\ IsFree(r)
    /\ LET t == now + 1
           ls == Append(get_lists, Dict(broadcast_list))
           log == LogEntry(t, "Created list", broadcast_list.name,
                           Len(broadcast_list.members), "success")
           msg == Message("data_change", "list_created", broadcast_list.name,
                          NoDevice, 0, 0, {}, <<>>, t)
       IN  /\ now' = t
           /\ data' = add_log(save_lists(data, ls, t), log)
           /\ RunBroadcast(r, Entered(msg, active_connections),
                           [Op("create", r) EXCEPT !.lists = <<Dict(broadcast_list)>>,
                                                   !.list_id = broadcast_list.id])
    /\ UNCHANGED <<connected_devices, ws>>

\* [l for l in lists if l.get("id") != list_id]
Without(ls, list_id) ==
    LET keep(l) == l.id # list_id IN SelectSeq(ls, keep)

\* next((l.get("name") for l in lists if l.get("id") == list_id), None), and
\* `deleted_name or list_id`: None and the empty name both give the id.
DeletedName(ls, list_id) ==
    IF list_id \in Ids(ls)
    THEN LET first == CHOOSE i \in 1..Len(ls) :
                         /\ ls[i].id = list_id
                         /\ \A j \in 1..(i - 1) : ls[j].id # list_id
         IN  IF ls[first].name = "" THEN list_id ELSE ls[first].name
    ELSE list_id

\* NotFound with the bug "404 only when nothing is left".
NotFoundWhenEmpty(lists, original) == lists = <<>>

\* len(lists) == original_count: nothing was filtered out.
NotFound(lists, original) == Len(lists) = Len(original)

\* DELETE /api/lists/{list_id}: 404 when nothing was filtered out, else to its
\* first await.
delete_list(r, list_id) ==
    /\ IsFree(r)
    /\ LET lists == Without(get_lists, list_id)
       IN  IF NotFound(lists, get_lists)
           THEN /\ lastOp' = [Op("delete", r) EXCEPT !.list_id = list_id,
                                                     !.status = 404, !.raised = TRUE]
                /\ UNCHANGED <<data, now, active_connections, connected_devices, ws, req>>
           ELSE /\ LET t == now + 1
                       deleted_name == DeletedName(get_lists, list_id)
                       log == LogEntry(t, "Deleted list", list_id, 0, "success")
                       msg == Message("data_change", "list_deleted", deleted_name,
                                      NoDevice, 0, 0, {}, <<>>, t)
                   IN  /\ now' = t
                       /\ data' = add_log(save_lists(data, lists, t), log)
                       /\ RunBroadcast(r, Entered(msg, active_connections),
                                       [Op("delete", r) EXCEPT !.list_id = list_id])
                /\ UNCHANGED <<connected_devices, ws>>

\* DELETE /api/logs: no await.
clear_logs ==
    /\ now' = now + 1
    /\ data' = add_log(data, LogEntry(now + 1, "Logs cleared", "", 0, "success"))
    /\ lastOp' = [Op("clear_logs", "none") EXCEPT !.status = 200]
    /\ UNCHANGED <<active_connections, connected_devices, ws, req>>

\* A request resumed from a send_json of its broadcast.
BroadcastResume(r) ==
    /\ req[r].pc = "sending"
    /\ RunBroadcast(r, req[r], Op("broadcast", r))
    /\ UNCHANGED <<data, now, connected_devices, ws>>

----------------------------------------------------------------------------
\* main.py: get_common_members

UpperCase == <<"A", "B", "C", "D", "E", "F", "G", "H", "I", "J", "K", "L", "M",
               "N", "O", "P", "Q", "R", "S", "T", "U", "V", "W", "X", "Y", "Z">>
LowerCase == <<"a", "b", "c", "d", "e", "f", "g", "h", "i", "j", "k", "l", "m",
               "n", "o", "p", "q", "r", "s", "t", "u", "v", "w", "x", "y", "z">>

\* str.lower, on a string held as the sequence of its characters.
lower(str) ==
    [i \in 1..Len(str) |->
        IF \E k \in 1..Len(UpperCase) : UpperCase[k] = str[i]
        THEN LowerCase[CHOOSE k \in 1..Len(UpperCase) : UpperCase[k] = str[i]]
        ELSE str[i]]

\* The characters str.strip() takes off.
Whitespace == {" ", "\t", "\n"}

\* strip with the bug "the name is taken as it is written".
unstripped(str) == str

\* str.strip: without the whitespace at both ends.
strip(str) ==
    LET inner == {i \in 1..Len(str) : str[i] \notin Whitespace}
    IN  IF inner = {} THEN <<>>
        ELSE SubSeq(str, CHOOSE i \in inner : \A j \in inner : i <= j,
                         CHOOSE i \in inner : \A j \in inner : j <= i)

\* Last with the bug "phone[:n]": the first n characters.
First(str, n) == SubSeq(str, 1, IF Len(str) > n THEN n ELSE Len(str))

\* str[-n:] : the last n characters, the whole string if it is shorter.
Last(str, n) == SubSeq(str, IF Len(str) > n THEN Len(str) - n + 1 ELSE 1, Len(str))

\* The key of a member: phone[-10:] if the phone is not empty, else
\* name.lower().strip().
Key(member) ==
    IF member.phone # <<>> THEN Last(member.phone, 10) ELSE strip(lower(member.name))

\* IsSource with the bug "only the schema's spelling is looked at".
IsSourceSnake(l) == ~l.is_auto_generated

\* The filter of the source lists: neither spelling of the flag is set.
IsSource(l) == ~l.is_auto_generated /\ ~l.isAutoGenerated

\* SourceLists with the bug "the filter is missing".
SourceListsAll(lists) == lists

SourceLists(lists) == SelectSeq(lists, IsSource)

\* The two loops, flattened: every member of every source list in order, with
\* the name of its list.
RECURSIVE Occurrences(_)
Occurrences(source_lists) ==
    IF source_lists = <<>> THEN <<>>
    ELSE [i \in 1..Len(source_lists[1].members) |->
             [member |-> source_lists[1].members[i], list_name |-> source_lists[1].name]]
         \o Occurrences(Tail(source_lists))

\* The body of the inner loop on member_counts, an insertion-ordered dict held
\* as the sequence of its items.
CountMember(member_counts, occ) ==
    LET key == Key(occ.member)
    IN  IF key = <<>> THEN member_counts
        ELSE IF \E i \in 1..Len(member_counts) : member_counts[i].key = key
        THEN [i \in 1..Len(member_counts) |->
                 IF member_counts[i].key = key
                 THEN [member_counts[i] EXCEPT !.count = @ + 1,
                                               !.in_lists = Append(@, occ.list_name)]
                 ELSE member_counts[i]]
        ELSE Append(member_counts,
                    [key |-> key, member |-> occ.member, count |-> 1,
                     in_lists |-> <<occ.list_name>>])

RECURSIVE CountAll(_, _)
CountAll(member_counts, occs) ==
    IF occs = <<>> THEN member_counts
    ELSE CountAll(CountMember(member_counts, occs[1]), Tail(occs))

MemberCounts(source_lists) == CountAll(<<>>, Occurrences(source_lists))

\* The comprehension: the items counted twice or more, each the member's own
\* fields with appears_in and list_names; list(set(...)) has no given order
\* and is held as a set.
CommonMembers(member_counts) ==
    LET twice(info) == info.count >= 2
        found == SelectSeq(member_counts, twice)
    IN  [i \in 1..Len(found) |->
            [id |-> found[i].member.id, name |-> found[i].member.name,
             phone |-> found[i].member.phone, appears_in |-> found[i].count,
             list_names |-> Range(found[i].in_lists)]]

\* list.sort(key = appears_in, reverse = True) is stable: x goes behind every
\* entry that appears in as many lists or more.
SortInsert(sorted, x) ==
    LET before == {i \in 1..Len(sorted) : sorted[i].appears_in >= x.appears_in}
        n == Cardinality(before)
    IN  SubSeq(sorted, 1, n) \o <<x>> \o SubSeq(sorted, n + 1, Len(sorted))

RECURSIVE SortByAppearsIn(_, _)
SortByAppearsIn(sorted, rest) ==
    IF rest = <<>> THEN sorted
    ELSE SortByAppearsIn(SortInsert(sorted, rest[1]), Tail(rest))

MessageNeedTwo == "Need at least 2 lists to find common members"

\* GET /api/common-members on the stored lists: the "data" of its response.
get_common_members(lists) ==
    LET source_lists == SourceLists(lists)
        common_members == SortByAppearsIn(<<>>, CommonMembers(MemberCounts(source_lists)))
    IN  IF Len(source_lists) < 2
        THEN [success |-> TRUE, common_members |-> <<>>,
              source_lists_count |-> Len(source_lists),
              total_common |-> NoCount, message |-> MessageNeedTwo]
        ELSE [success |-> TRUE, common_members |-> common_members,
              source_lists_count |-> Len(source_lists),
              total_common |-> Len(common_members), message |-> ""]

\* GET /api/common-members: no await, nothing written.
common_members_request ==
    /\ lastOp' = [Op("common_members", "none") EXCEPT
                     !.status = 200, !.result = get_common_members(get_lists)]
    /\ UNCHANGED <<data, now, active_connections, connected_devices, ws, req>>

----------------------------------------------------------------------------
\* main.py: websocket_endpoint

FramePing == "{\"type\": \"ping\"}"
FrameRefresh == "{\"type\": \"refresh\"}"
FrameOther == "{\"type\": \"hello\"}"
FrameArray == "[1]"
FrameText == "ping"

\* The text frames a client sends.
Frames == {FramePing, FrameRefresh, FrameOther, FrameArray, FrameText}

\* json.loads: raises JSONDecodeError (ok = FALSE), or gives a dict (with
\* what .get("type") gives, "" for None) or another JSON value.
json_loads(frame) ==
    CASE frame = FramePing -> [ok |-> TRUE, is_dict |-> TRUE, type |-> "ping"]
      [] frame = FrameRefresh -> [ok |-> TRUE, is_dict |-> TRUE, type |-> "refresh"]
      [] frame = FrameOther -> [ok |-> TRUE, is_dict |-> TRUE, type |-> "hello"]
      [] frame = FrameArray -> [ok |-> TRUE, is_dict |-> FALSE, type |-> ""]
      [] OTHER -> [ok |-> FALSE, is_dict |-> FALSE, type |-> ""]

\* How a send_json of the handler ends when the peer has gone: the code
\* catches WebSocketDisconnect only, and which exception the send raises is
\* the server library's choice.
SendErrors == {"WebSocketDisconnect", "RuntimeError"}

\* manager.connect and the init snapshot, to the first receive_text.  The
\* init send is inside `except Exception`: a failure is printed, and the
\* handler goes on to its loop.
connect(w, sendOk) ==
    /\ ws[w].pc = "new"
    /\ LET conns == Append(active_connections, w)
           lists == get_lists
           init == Message("init", "", "", NoDevice, Len(lists), SumLen(lists),
                           DeviceKeys, <<>>, now)
       IN  /\ active_connections' = conns
           /\ req' = Track(req, conns)
           /\ ws' = [ws EXCEPT ![w] = [pc |-> "receive",
                                       transport |-> IF sendOk THEN "open" ELSE "closed"]]
           /\ lastOp' = [Op("connect", w) EXCEPT
                            !.sent = IF sendOk THEN {[to |-> w, msg |-> init]} ELSE {}]
    /\ UNCHANGED <<data, now, connected_devices>>

\* The reply of the loop to one parsed frame: nothing, or one message.
Reply(message) ==
    IF message.type = "ping"
    THEN {Message("pong", "", "", NoDevice, 0, 0, {}, <<>>, NoTime)}
    ELSE IF message.type = "refresh"
    THEN {Message("data", "", "", NoDevice, 0, 0, {}, get_lists, now)}
    ELSE {}

\* The handler leaves its loop with an exception: WebSocketDisconnect is
\* caught and manager.disconnect runs; anything else leaves the function,
\* and the server closes the socket.
Leave(w, op, error) ==
    LET conns == IF error = "WebSocketDisconnect"
                 THEN disconnect(active_connections, w)
                 ELSE active_connections
    IN  /\ active_connections' = conns
        /\ req' = Track(req, conns)
        /\ ws' = [ws EXCEPT ![w] = [pc |-> IF error = "WebSocketDisconnect"
                                             THEN "done" ELSE "failed",
                                    transport |-> "closed"]]
        /\ lastOp' = [op EXCEPT !.raised = error # "WebSocketDisconnect"]

\* One turn of the loop: receive_text gives a frame, the handler answers it
\* and is back in receive_text.  sendOk = FALSE: the peer went away before
\* the reply could be sent.
receive(w, frame, sendOk, error) ==
    /\ ws[w].pc = "receive"
    /\ ws[w].transport = "open"
    /\ LET message == json_loads(frame)
           op == [Op("receive", w) EXCEPT !.frame = frame]
       IN  IF ~message.ok
           THEN \* except json.JSONDecodeError: pass
                /\ lastOp' = op
                /\ UNCHANGED <<active_connections, ws, req>>
           ELSE IF ~message.is_dict
           THEN \* message.get raises AttributeError
                Leave(w, op, "AttributeError")
           ELSE IF Reply(message) = {}
           THEN /\ lastOp' = op
                /\ UNCHANGED <<active_connections, ws, req>>
           ELSE IF sendOk
           THEN /\ lastOp' = [op EXCEPT !.sent = {[to |-> w, msg |-> m] : m \in Reply(message)}]
                /\ UNCHANGED <<active_connections, ws, req>>
           ELSE Leave(w, op, error)
    /\ UNCHANGED <<data, now, connected_devices>>

\* The peer closes the socket.
PeerClose(w) ==
    /\ ws[w].pc = "receive"
    /\ ws[w].transport = "open"
    /\ ws' = [ws EXCEPT ![w].transport = "closed"]
    /\ lastOp' = Op("peer_close", w)
    /\ UNCHANGED <<data, now, active_connections, connected_devices, req>>

\* receive_text raises WebSocketDisconnect.
receive_disconnect(w) ==
    /\ ws[w].pc = "receive"
    /\ ws[w].transport = "closed"
    /\ Leave(w, Op("receive_disconnect", w), "WebSocketDisconnect")
    /\ UNCHANGED <<data, now, connected_devices>>

----------------------------------------------------------------------------

\* The store and its REST operations, with one subscriber to suspend their
\* broadcasts on; the clock stops the requests at MaxClock.
Next ==
    \/ \E r \in Requests, d \in Devices, ls \in SyncBodies :
          now < MaxClock /\ post_sync(r, d, ls)
    \/ \E r \in Requests, bl \in RequestLists : now < MaxClock /\ create_list(r, bl)
    \/ \E r \in Requests, id \in ListIds : now < MaxClock /\ delete_list(r, id)
    \/ now < MaxClock /\ clear_logs
    \/ \E r \in Requests : BroadcastResume(r)
    \/ \E w \in StoreSockets, sendOk \in BOOLEAN : connect(w, sendOk)
    \/ \E w \in StoreSockets : PeerClose(w)
    \/ \E w \in StoreSockets : receive_disconnect(w)

Spec == Init /\ [][Next]_vars

\* The connection manager with all its subscribers, under the events of
\* MaxEvents requests.
NextHub ==
    \/ \E r \in Requests : now < MaxEvents /\ post_sync(r, "A", <<TeamV1>>)
    \/ \E r \in Requests : BroadcastResume(r)
    \/ \E w \in WebSockets, sendOk \in BOOLEAN : connect(w, sendOk)
    \/ \E w \in WebSockets, f \in Frames, sendOk \in BOOLEAN, e \in SendErrors :
          receive(w, f, sendOk, e)
    \/ \E w \in WebSockets : PeerClose(w)
    \/ \E w \in WebSockets : receive_disconnect(w)

SpecHub == Init /\ [][NextHub]_vars

\* The log from the empty store to its ceiling and past it: LogFill appends,
\* then every operation that saves the store, up to MaxAppends ticks.
NextLog ==
    \/ now < MaxAppends /\ clear_logs
    \/ \E r \in Requests, d \in Devices, ls \in SyncBodies :
          LogFill <= now /\ now < MaxAppends /\ post_sync(r, d, ls)
    \/ \E r \in Requests, bl \in RequestLists :
          LogFill <= now /\ now < MaxAppends /\ create_list(r, bl)
    \/ \E r \in Requests, id \in ListIds :
          LogFill <= now /\ now < MaxAppends /\ delete_list(r, id)

SpecLog == Init /\ [][NextLog]_vars

\* The writes and their events with all the subscribers: the broadcast of one
\* request is suspended in a send while another request writes.
NextNotify ==
    \/ \E r \in Requests : now < MaxEvents /\ post_sync(r, "A", <<TeamV1>>)
    \/ \E r \in Requests : now < MaxEvents /\ create_list(r, Friends)
    \/ \E r \in Requests, id \in {"L1", "L2"} : now < MaxEvents /\ delete_list(r, id)
    \/ \E r \in Requests : BroadcastResume(r)
    \/ \E w \in WebSockets, sendOk \in BOOLEAN : connect(w, sendOk)
    \/ \E w \in WebSockets : PeerClose(w)
    \/ \E w \in WebSockets : receive_disconnect(w)

SpecNotify == Init /\ [][NextNotify]_vars

\* The aggregation over the stores that MaxSources writes can build, with no
\* subscriber connected: every broadcast returns at once.
InitAgg ==
    /\ data \in {[EmptyData EXCEPT !.lists = ls] : ls \in StoredAtStart}
    /\ now = 0
    /\ active_connections = <<>>
    /\ connected_devices = [d \in Devices |-> NoTime]
    /\ ws = [w \in WebSockets |-> [pc |-> "new", transport |-> "open"]]
    /\ req = [r \in Requests |-> Idle]
    /\ lastOp = NoOp

NextAgg ==
    \/ \E r \in Requests : now < MaxSources /\ post_sync(r, "A", <<TeamV1>>)
    \/ \E r \in Requests : now < MaxSources /\ post_sync(r, "B", <<Friends>>)
    \/ \E r \in Requests, bl \in AggLists : now < MaxSources /\ create_list(r, bl)
    \/ \E r \in Requests, id \in AggListIds : now < MaxSources /\ delete_list(r, id)
    \/ common_members_request

SpecAgg == InitAgg /\ [][NextAgg]_vars

----------------
\* The claims.

Min(a, b) == IF a < b THEN a ELSE b

\* The steps that append to the log.
Appended ==
    \/ lastOp.op \in {"sync", "create", "clear_logs"}
    \/ lastOp.op = "delete" /\ lastOp.status # 404

\* C1: last-write-wins.  After a sync, every id it carried is held by exactly
\* one stored list, and that list is the last one the sync carried with that
\* id, stamped with the syncing device and the time of the sync, whatever was
\* stored under the id before and whichever device had put it there.
C1_LastWriteWins ==
    lastOp.op = "sync" =>
        \A i \in 1..Len(lastOp.lists) :
            LET id == lastOp.lists[i].id
                last == CHOOSE k \in 1..Len(lastOp.lists) :
                            /\ lastOp.lists[k].id = id
                            /\ \A j \in (k + 1)..Len(lastOp.lists) : lastOp.lists[j].id # id
                held == {k \in 1..Len(data.lists) : data.lists[k].id = id}
            IN  /\ Cardinality(held) = 1
                /\ \A k \in held :
                      data.lists[k] = Stamp(lastOp.lists[last], lastOp.device_id, now)

\* C1's case: a list id synced a second time, with other content, by another
\* device.
C1_Witness ==
    /\ lastOp.op = "sync"
    /\ \E i \in 1..Len(lastOp.lists), k \in 1..Len(lastOp.pre.lists) :
          /\ lastOp.pre.lists[k].id = lastOp.lists[i].id
          /\ lastOp.pre.lists[k].synced_from \notin {NoDevice, lastOp.device_id}
          /\ lastOp.pre.lists[k].members # lastOp.lists[i].members

\* C2: the stored lists have pairwise distinct ids.
C2_UniqueIds ==
    \A i, j \in 1..Len(data.lists) :
        i # j => data.lists[i].id # data.lists[j].id

\* C3: the persisted log never holds more than 100 entries.
C3_LogsBounded == Len(data.logs) <= MaxLogs

\* C3's case: an operation that saves lists and appends to a log that was full.
C3_Witness ==
    /\ lastOp.op \in {"sync", "create", "delete"}
    /\ lastOp.status # 404
    /\ Len(lastOp.pre.logs) = MaxLogs
    /\ Len(data.logs) = MaxLogs

\* C4: an append puts the new entry first, keeps the entries that were there in
\* their order and cuts the result to 100: the length is min(old + 1, 100).
\* Every append ticks the clock once and stamps its entry with it, so the entry
\* with timestamp t is the t-th one appended: the log is always the
\* min(now, 100) most recently appended entries, the most recent first.
C4_LogAppend ==
    /\ Len(data.logs) = Min(now, MaxLogs)
    /\ \A i \in 1..Len(data.logs) : data.logs[i].timestamp = now - i + 1
    /\ Appended =>
          /\ Len(data.logs) = Min(Len(lastOp.pre.logs) + 1, MaxLogs)
          /\ data.logs[1].timestamp = now
          /\ \A i \in 2..Len(data.logs) : data.logs[i] = lastOp.pre.logs[i - 1]

\* C4's case: more than 100 entries have been appended.
C4_Witness ==
    /\ Appended
    /\ now > MaxLogs
    /\ Len(data.logs) = MaxLogs

\* A broadcast has just returned.  Of it: bstayed are the subscribers that
\* were live when it started and have been ever since, battempted those it
\* called send_json on, bfailed those whose send raised.
BroadcastReturned == lastOp.bdone

\* C5: fan-out isolation.  When a broadcast in which some sends failed
\* returns, every subscriber that stayed live and did not fail was sent the
\* event, no failed subscriber is live, only failed subscribers were removed by
\* it, and nothing was raised to the caller.
C5_FanOutIsolation ==
    (BroadcastReturned /\ lastOp.bfailed # {}) =>
        /\ (lastOp.bstayed \ lastOp.bfailed) \subseteq (lastOp.battempted \ lastOp.bfailed)
        /\ lastOp.bfailed \cap Range(active_connections) = {}
        /\ Range(lastOp.conns) \ Range(active_connections) \subseteq lastOp.bfailed
        /\ ~lastOp.raised

\* C6: a broadcast runs to completion across its subscribers.  When it
\* returns, every subscriber that was live when it started and stayed live
\* until its end has had a delivery attempt.
C6_RunsToCompletion ==
    BroadcastReturned => lastOp.bstayed \subseteq lastOp.battempted

\* The requests in flight: createList and a sync that carried a list, each
\* suspended in its broadcast after its save.
InFlightTogether(r, q) ==
    /\ r # q
    /\ req[r].pc = "sending"
    /\ req[r].msg.action = "list_created"
    /\ req[q].pc = "sending"
    /\ req[q].msg.type = "sync"
    /\ req[q].msg.lists_count > 0

\* The store holds what both wrote: the list r created and a list q synced.
BothWritesStored(r, q) ==
    /\ \E i \in 1..Len(data.lists) :
          /\ data.lists[i].name = req[r].msg.details
          /\ data.lists[i].synced_from = NoDevice
    /\ \E i \in 1..Len(data.lists) :
          /\ data.lists[i].synced_from = req[q].msg.device_id
          /\ data.lists[i].synced_at = req[q].msg.timestamp

C8_DeleteAbsent ==
    (lastOp.op = "delete" /\ lastOp.list_id \notin Ids(lastOp.pre.lists)) =>
        /\ lastOp.status = 404
        /\ data = lastOp.pre
        /\ lastOp.sent = {}
        /\ ~lastOp.bdone
        /\ req[lastOp.who].pc = "idle"
        /\ active_connections = lastOp.conns

\* C8's case: the 404 with lists in the store and a subscriber connected.
C8_Witness ==
    /\ lastOp.op = "delete"
    /\ lastOp.status = 404
    /\ data.lists # <<>>
    /\ \E w \in WebSockets : w \in Range(active_connections) /\ ws[w].transport = "open"

\* C9: inbound frames.  Whatever is sent goes to the sender alone; a ping is
\* answered by one pong and a refresh by one snapshot of the stored lists
\* (unless the peer is gone before the reply); any other frame sends nothing,
\* raises nothing and leaves the sender connected, live and receiving.
C9_InboundMessages ==
    lastOp.op = "receive" =>
        LET w == lastOp.who
            message == json_loads(lastOp.frame)
            known == message.ok /\ message.is_dict /\ message.type \in {"ping", "refresh"}
            pong == Message("pong", "", "", NoDevice, 0, 0, {}, <<>>, NoTime)
            snapshot == Message("data", "", "", NoDevice, 0, 0, {}, data.lists, now)
            replied(m) ==
                \/ lastOp.sent = {[to |-> w, msg |-> m]}
                \/ lastOp.sent = {} /\ ws[w].transport = "closed"
        IN  /\ \A x \in lastOp.sent : x.to = w
            /\ (known /\ message.type = "ping") => replied(pong)
            /\ (known /\ message.type = "refresh") => replied(snapshot)
            /\ ~known =>
                  /\ lastOp.sent = {}
                  /\ ~lastOp.raised
                  /\ ws[w] = [pc |-> "receive", transport |-> "open"]
                  /\ w \in Range(active_connections)

\* C10: disconnect is idempotent.  On the live list of every reachable state:
\* disconnecting a subscriber that is not in it gives the same list, a second
\* disconnect of the same subscriber changes nothing, and what is left is the
\* list without that subscriber, the others in their order.  And the handler's
\* disconnect of a subscriber that a broadcast had already removed left the
\* list as it was and raised nothing.
C10_DisconnectIdempotent ==
    /\ \A w \in WebSockets :
          LET once == disconnect(active_connections, w)
              others(v) == v # w
          IN  /\ w \notin Range(active_connections) => once = active_connections
              /\ disconnect(once, w) = once
              /\ once = SelectSeq(active_connections, others)
    /\ (lastOp.op = "receive_disconnect" /\ lastOp.who \notin Range(lastOp.conns)) =>
          /\ active_connections = lastOp.conns
          /\ ~lastOp.raised

\* C10's case: the handler disconnects a subscriber that a broadcast has
\* already removed, with another subscriber live.
C10_Witness ==
    /\ lastOp.op = "receive_disconnect"
    /\ lastOp.who \notin Range(lastOp.conns)
    /\ lastOp.conns # <<>>

\* The devices that have synced since the start, as the log has them.
SyncedDevices ==
    {data.logs[i].subject :
        i \in {k \in 1..Len(data.logs) : data.logs[k].action = "Synced lists from Android"}}

\* C11: connect.  The subscriber is appended to the live list and nobody else
\* is touched; the one message of the step is the init snapshot, sent to the
\* new subscriber alone (or to nobody, when the peer is gone before it can be
\* sent); it carries the number of stored lists, the sum of their member
\* counts and the set of devices that have synced, all as of that moment.
C11_ConnectSnapshot ==
    lastOp.op = "connect" =>
        LET w == lastOp.who
            init == Message("init", "", "", NoDevice, Len(data.lists), SumLen(data.lists),
                            SyncedDevices, <<>>, now)
        IN  /\ active_connections = Append(lastOp.conns, w)
            /\ \A x \in lastOp.sent : x.to = w
            /\ \/ lastOp.sent = {[to |-> w, msg |-> init]}
               \/ lastOp.sent = {} /\ ws[w].transport = "closed"
            /\ data = lastOp.pre

\* C11's case: a subscriber connects while another is live and the store holds
\* a synced list, and is sent its snapshot.
C11_Witness ==
    /\ lastOp.op = "connect"
    /\ lastOp.sent # {}
    /\ lastOp.conns # <<>>
    /\ data.lists # <<>>
    /\ SyncedDevices # {}

\* C12: clearLogs removes the history.  After it the log holds no entry that
\* was there before: at most the one entry that records the clear.
C12_ClearLogsRemovesHistory ==
    lastOp.op = "clear_logs" =>
        /\ Len(get_logs) <= 1
        /\ \A i \in 1..Len(get_logs) :
              /\ get_logs[i].action = "Logs cleared"
              /\ get_logs[i].timestamp = now
              /\ get_logs[i] \notin Range(lastOp.pre.logs)

\* The response of a GET /api/common-members just made, and what it was made
\* from.
Answered == lastOp.op = "common_members"

Result == lastOp.result.common_members

Sources == SourceLists(data.lists)

\* The places of the members in the source lists: <<list, position>>.
Places ==
    UNION {{<<i, k>> : k \in 1..Len(Sources[i].members)} : i \in 1..Len(Sources)}

MemberAt(p) == Sources[p[1]].members[p[2]]

\* The entries of the response that stand for the member m.
EntriesOf(m) == {k \in 1..Len(Result) : Key(Result[k]) = Key(m)}

Digits == {"0", "1", "2", "3", "4", "5", "6", "7", "8", "9"}

\* The last 10 digits of a phone string, whatever else is written in it.
LastTenDigits(phone) ==
    LET digit(c) == c \in Digits IN Last(SelectSeq(phone, digit), 10)

\* Two phone strings of one number: both hold 10 digits or more, and the same
\* last 10.
SameNumber(m, n) ==
    /\ Len(LastTenDigits(m.phone)) = 10
    /\ LastTenDigits(m.phone) = LastTenDigits(n.phone)

\* C13: phone-identity folding.  Contacts in two different source lists whose
\* phones have the same last 10 digits, however the number is formatted or
\* prefixed, have one identity key and are reported as one common member,
\* which appears in as many places as the number is written in (2 for two
\* contacts).
C13_PhoneFolding ==
    Answered =>
        \A p, q \in Places :
            (p[1] # q[1] /\ SameNumber(MemberAt(p), MemberAt(q))) =>
                /\ Key(MemberAt(p)) = Key(MemberAt(q))
                /\ Cardinality(EntriesOf(MemberAt(p))) = 1
                /\ \A k \in EntriesOf(MemberAt(p)) :
                      Result[k].appears_in =
                          Cardinality({x \in Places : SameNumber(MemberAt(p), MemberAt(x))})

\* The store of the end-to-end scenario: two writes since the empty store,
\* both syncs, the first by device A and the second by device B, of two lists
\* of different ids with one member each, the two phones alike in their last
\* 10 characters.
TwoSyncsStored ==
    /\ now = 2
    /\ Len(data.logs) = 2
    /\ \A i \in 1..2 : data.logs[i].action = "Synced lists from Android"
    /\ Len(data.lists) = 2
    /\ data.lists[1].synced_from = "A"
    /\ data.lists[2].synced_from = "B"
    /\ data.lists[1].id # data.lists[2].id
    /\ \A i \in 1..2 : Len(data.lists[i].members) = 1
    /\ LET one == data.lists[1].members[1].phone
           other == data.lists[2].members[1].phone
       IN  /\ Len(one) >= 10
           /\ Len(other) >= 10
           /\ \A k \in 0..9 : one[Len(one) - k] = other[Len(other) - k]

\* C14: end to end.  The first sync into the empty store, of one list by
\* device A, leaves getLists with that one list, stamped A.  After the further
\* sync by device B, findCommonMembers answers one common member, the member
\* of the first list, appearing in 2 lists, with the names of both lists.
C14_EndToEnd ==
    /\ (/\ lastOp.op = "sync"
        /\ lastOp.pre = EmptyData
        /\ lastOp.device_id = "A"
        /\ Len(lastOp.lists) = 1) =>
            /\ Len(get_lists) = 1
            /\ get_lists[1] = Stamp(lastOp.lists[1], "A", now)
            /\ get_lists[1].synced_from = "A"
    /\ (Answered /\ TwoSyncsStored) =>
            /\ lastOp.result.success
            /\ Len(Result) = 1
            /\ Result[1].appears_in = 2
            /\ Result[1].list_names = {data.lists[1].name, data.lists[2].name}
            /\ Result[1].id = data.lists[1].members[1].id
            /\ Result[1].name = data.lists[1].members[1].name
            /\ lastOp.result.total_common = 1
            /\ lastOp.result.source_lists_count = 2

\* C14's case: the scenario has run to its end, and two list names are
\* answered.
C14_Witness ==
    /\ Answered
    /\ TwoSyncsStored
    /\ Len(Result) = 1
    /\ Cardinality(Result[1].list_names) = 2

\* The stored lists that are flagged auto-generated, under either spelling.
Flagged == {i \in 1..Len(data.lists) :
               data.lists[i].is_auto_generated \/ data.lists[i].isAutoGenerated}

Unflagged == (1..Len(data.lists)) \ Flagged

\* C15: with fewer than 2 stored lists that are not flagged auto-generated,
\* findCommonMembers answers normally, with no common member and the number of
\* unflagged lists as the source-list count.
C15_FewerThanTwo ==
    (Answered /\ Cardinality(Unflagged) < 2) =>
        /\ lastOp.status = 200
        /\ ~lastOp.raised
        /\ lastOp.result.success
        /\ lastOp.result.common_members = <<>>
        /\ lastOp.result.source_lists_count = Cardinality(Unflagged)

\* C15's case: one source list that holds a member twice, beside lists
\* flagged under each spelling.
C15_Witness ==
    /\ Answered
    /\ Cardinality(Unflagged) = 1
    /\ \E i, j \in Flagged : data.lists[i].is_auto_generated /\ data.lists[j].isAutoGenerated
    /\ \E i \in Unflagged : \E k, n \in 1..Len(data.lists[i].members) :
          k # n /\ data.lists[i].members[k] = data.lists[i].members[n]

\* A contact with no phone and a name of whitespace alone.
Nameless(m) == m.phone = <<>> /\ \A i \in 1..Len(m.name) : m.name[i] \in Whitespace

\* Two contacts with no phone whose names are equal once lower-cased and
\* trimmed, and not empty.
SameName(m, n) ==
    /\ m.phone = <<>>
    /\ n.phone = <<>>
    /\ ~Nameless(m)
    /\ strip(lower(m.name)) = strip(lower(n.name))

\* The claim's example: "Alice" in one source list, " alice " in another.
AliceTwice(p, q) ==
    /\ p[1] # q[1]
    /\ MemberAt(p).phone = <<>>
    /\ MemberAt(q).phone = <<>>
    /\ MemberAt(p).name = <<"A", "l", "i", "c", "e">>
    /\ MemberAt(q).name = <<" ", "a", "l", "i", "c", "e", " ">>

\* C16: name-identity folding.  Contacts without phone in two different source
\* lists whose names are equal after lower-casing and trimming are reported as
\* one common member, which appears in as many places as the name is written
\* in (2 for two contacts): so are "Alice" and " alice ".  A contact with no
\* phone and a name that trims to nothing is never reported and never counted.
C16_NameFolding ==
    Answered =>
        /\ \A p, q \in Places :
              ((p[1] # q[1] /\ SameName(MemberAt(p), MemberAt(q))) \/ AliceTwice(p, q)) =>
                  /\ Key(MemberAt(p)) = Key(MemberAt(q))
                  /\ Cardinality(EntriesOf(MemberAt(p))) = 1
                  /\ \A k \in EntriesOf(MemberAt(p)) :
                        Result[k].appears_in =
                            Cardinality({x \in Places : SameName(MemberAt(p), MemberAt(x))})
        /\ \A k \in 1..Len(Result) : ~Nameless(Result[k])

\* C16's case: "Alice" and " alice " in two source lists, each list with a
\* nameless contact as well, and one common member for the two of them.
C16_Witness ==
    /\ Answered
    /\ \E p, q \in Places :
          /\ AliceTwice(p, q)
          /\ \E k \in EntriesOf(MemberAt(p)) : Result[k].appears_in = 2
    /\ \E p, q \in Places : p[1] # q[1] /\ Nameless(MemberAt(p)) /\ Nameless(MemberAt(q))

\* The source lists that hold a member of the key of m.
ListsHolding(m) == {p[1] : p \in {x \in Places : Key(MemberAt(x)) = Key(m)}}

\* C17: every member that findCommonMembers returns is in 2 or more distinct
\* source lists, and appearsIn is the number of those lists, also when a list
\* holds the member more than once.
C17_InTwoLists ==
    Answered =>
        \A k \in 1..Len(Result) :
            /\ Cardinality(ListsHolding(Result[k])) >= 2
            /\ Result[k].appears_in = Cardinality(ListsHolding(Result[k]))

\* The log holds the entry of the write that the event m tells of.
Logged(m) ==
    \E i \in 1..Len(data.logs) :
        /\ data.logs[i].timestamp = m.timestamp
        /\ data.logs[i].status = "success"
        /\ data.logs[i].action =
              CASE m.type = "sync" -> "Synced lists from Android"
                [] m.action = "list_created" -> "Created list"
                [] OTHER -> "Deleted list"

\* The step was a request that wrote: a sync, a createList, a delete that found
\* its list.
Wrote == lastOp.op \in {"sync", "create", "delete"} /\ lastOp.status # 404

\* C18 as claimed: at the moment of every send of a sync or data_change event
\* the store holds the change the event tells of (a list under the stamps of
\* the sync, a list of the created name, no list of the deleted name or id)
\* and the log holds its entry.
C18_StoreReflectsAtEverySend ==
    \A x \in lastOp.sent :
        x.msg.type \in {"sync", "data_change"} =>
            /\ Logged(x.msg)
            /\ (x.msg.type = "sync" /\ x.msg.lists_count > 0) =>
                  \E k \in 1..Len(data.lists) :
                      /\ data.lists[k].synced_from = x.msg.device_id
                      /\ data.lists[k].synced_at = x.msg.timestamp
            /\ x.msg.action = "list_created" =>
                  \E k \in 1..Len(data.lists) : data.lists[k].name = x.msg.details
            /\ x.msg.action = "list_deleted" =>
                  \A k \in 1..Len(data.lists) :
                      data.lists[k].name # x.msg.details /\ data.lists[k].id # x.msg.details

\* C18 as amended: notification follows the write.  When a request that writes reaches
\* its first send, the store holds its change (the synced lists under their
\* stamps, the created list, no list of the deleted id) and its log entry is
\* the newest.  Every sync or data_change event sent in any step, and every
\* one still to be sent by a suspended broadcast, tells of a write that was
\* saved and logged before; a delete that found nothing sends nothing.
C18_NotificationFollowsWrite ==
    /\ Wrote =>
          /\ data.logs # <<>>
          /\ data.logs[1].timestamp = now
          /\ data.last_sync = now
          /\ \A x \in lastOp.sent : x.msg.timestamp = now
          /\ lastOp.op = "sync" =>
                \A i \in 1..Len(lastOp.lists) : \E k \in 1..Len(data.lists) :
                    /\ data.lists[k].id = lastOp.lists[i].id
                    /\ data.lists[k].synced_from = lastOp.device_id
                    /\ data.lists[k].synced_at = now
          /\ lastOp.op = "create" => data.lists[Len(data.lists)] = lastOp.lists[1]
          /\ lastOp.op = "delete" =>
                /\ lastOp.list_id \in Ids(lastOp.pre.lists)
                /\ lastOp.list_id \notin Ids(data.lists)
    /\ \A x \in lastOp.sent :
          x.msg.type \in {"sync", "data_change"} =>
              /\ Logged(x.msg)
              /\ x.msg.timestamp <= data.last_sync
              /\ lastOp.op \in {"sync", "create", "delete", "broadcast"}
    /\ \A r \in Requests : req[r].pc = "sending" => Logged(req[r].msg)
    /\ lastOp.status = 404 => lastOp.sent = {} /\ data = lastOp.pre

\* C18's case: a suspended broadcast goes on to its second subscriber with a
\* data_change event after another request has written.
C18_Witness ==
    /\ lastOp.op = "broadcast"
    /\ \E x \in lastOp.sent :
          /\ x.msg.type = "data_change"
          /\ x.msg.timestamp < data.last_sync

\* The places where the key of m is written, and the first of them in the
\* order of the lists and of their members.
PlacesOf(m) == {x \in Places : Key(MemberAt(x)) = Key(m)}

Earlier(p, q) == p[1] < q[1] \/ (p[1] = q[1] /\ p[2] <= q[2])

FirstPlaceOf(m) == CHOOSE p \in PlacesOf(m) : \A q \in PlacesOf(m) : Earlier(p, q)

\* The response is the aggregation of the source lists: one entry for each
\* key written twice or more, none for any other; each entry is the member
\* first seen with its key, with the number of places the key is written in
\* and the set of the names of their lists; the entries are in the order of
\* non-increasing appears_in, and total_common is their number.
Aggregated ==
    /\ \A p \in Places :
          Cardinality(EntriesOf(MemberAt(p))) =
              IF Key(MemberAt(p)) # <<>> /\ Cardinality(PlacesOf(MemberAt(p))) >= 2
              THEN 1 ELSE 0
    /\ \A k \in 1..Len(Result) :
          /\ PlacesOf(Result[k]) # {}
          /\ LET first == MemberAt(FirstPlaceOf(Result[k]))
             IN  /\ Result[k].id = first.id
                 /\ Result[k].name = first.name
                 /\ Result[k].phone = first.phone
          /\ Result[k].appears_in = Cardinality(PlacesOf(Result[k]))
          /\ Result[k].list_names = {Sources[p[1]].name : p \in PlacesOf(Result[k])}
    /\ \A k \in 1..(Len(Result) - 1) : Result[k].appears_in >= Result[k + 1].appears_in
    /\ lastOp.result.total_common = Len(Result)

\* C19: every response of findCommonMembers is the aggregation of the source
\* lists: exactly the keys written twice or more, each once, as the member
\* first seen, with the names of its lists, in the order of non-increasing
\* appears_in, and total_common their number.
C19_AlwaysAggregated == Answered => Aggregated

\* What does hold of the response: with 2 source lists or more it is the
\* aggregation of the source lists; with fewer it has no common member
\* whatever the one list holds, no total_common, and the message instead.
C19_Aggregation ==
    Answered =>
        IF Cardinality(Unflagged) >= 2
        THEN Aggregated /\ lastOp.result.message = ""
        ELSE /\ Result = <<>>
             /\ lastOp.result.total_common = NoCount
             /\ lastOp.result.message = MessageNeedTwo

\* The case of the sort: two common members that the sort has put in the other order
\* than they were first seen in, one of them first seen under another writing
\* than a later one.
C19_Sorted ==
    /\ Answered
    /\ Len(Result) >= 2
    /\ Result[1].appears_in > Result[2].appears_in
    /\ FirstPlaceOf(Result[1]) # FirstPlaceOf(Result[2])
    /\ Earlier(FirstPlaceOf(Result[2]), FirstPlaceOf(Result[1]))
    /\ \E k \in 1..Len(Result) : \E p \in PlacesOf(Result[k]) :
          MemberAt(p).name # Result[k].name

\* The stored lists without the flagged ones.
UnflaggedLists ==
    LET unflagged(l) == ~(l.is_auto_generated \/ l.isAutoGenerated)
    IN  SelectSeq(data.lists, unflagged)

\* The places of the key of m in the unflagged stored lists: <<list, position>>.
UnflaggedPlacesOf(m) ==
    {p \in UNION {{<<i, k>> : k \in 1..Len(data.lists[i].members)} : i \in Unflagged} :
        Key(data.lists[p[1]].members[p[2]]) = Key(m)}

\* A flagged list holds a member of the key of m.
FlaggedHolds(i, m) ==
    /\ i \in Flagged
    /\ \E k \in 1..Len(data.lists[i].members) : Key(data.lists[i].members[k]) = Key(m)

\* C20: lists flagged auto-generated, under either spelling, are no sources.
\* What findCommonMembers answers on the stored lists is what it answers on
\* the stored lists without the flagged ones, so a flagged list more or less
\* changes nothing; every count and every list name of a response comes from
\* the unflagged lists alone; and the request leaves the store as it was.
C20_AutoGeneratedExcluded ==
    /\ get_common_members(data.lists) = get_common_members(UnflaggedLists)
    /\ Answered =>
          /\ data = lastOp.pre
          /\ lastOp.result = get_common_members(UnflaggedLists)
          /\ lastOp.result.source_lists_count = Cardinality(Unflagged)
          /\ \A k \in 1..Len(Result) :
                /\ Result[k].appears_in = Cardinality(UnflaggedPlacesOf(Result[k]))
                /\ Result[k].list_names =
                      {data.lists[p[1]].name : p \in UnflaggedPlacesOf(Result[k])}

\* C20's case: a common member is answered that lists flagged under each
\* spelling hold as well.
C20_Witness ==
    /\ Answered
    /\ \E k \in 1..Len(Result) : \E i, j \in Flagged :
          /\ data.lists[i].is_auto_generated
          /\ data.lists[j].isAutoGenerated
          /\ FlaggedHolds(i, Result[k])
          /\ FlaggedHolds(j, Result[k])

\* C21: a sync changes only the lists it is given.  Every list that was
\* stored under an id the sync does not carry is still stored, as it was; the
\* merge leaves the log alone (the one new entry is the endpoint's); the total
\* it returns is the number of stored lists, and that is not smaller than
\* before.
C21_SyncFrame ==
    lastOp.op = "sync" =>
        /\ \A i \in 1..Len(lastOp.pre.lists) :
              lastOp.pre.lists[i].id \notin Ids(lastOp.lists) =>
                  \E k \in 1..Len(data.lists) : data.lists[k] = lastOp.pre.lists[i]
        /\ sync_from_android(lastOp.pre, lastOp.device_id, lastOp.lists, now).logs
              = lastOp.pre.logs
        /\ Tail(data.logs) = lastOp.pre.logs
        /\ lastOp.total = Len(data.lists)
        /\ Len(data.lists) >= Len(lastOp.pre.lists)

\* The handler of w has ended: through its `except WebSocketDisconnect`
\* ("done") or with another exception ("failed").
Terminated(w) == ws[w].pc \in {"done", "failed"}

\* C22: the live list holds only subscribers whose handler is still running.
\* Whichever way a handler ends, its subscriber is out of the list, so the
\* live-connection count (the length of the list) counts no ended handler.
C22_LiveSetRunning ==
    \A w \in WebSockets : Terminated(w) => w \notin Range(active_connections)

====
